---- MODULE Spec2Model ----
(***************************************************************************)
(* cartunes: the egui frame orchestrator (src/src/framework.rs) and the    *)
(* winit event loop that drives it (src/src/main.rs).                      *)
(*                                                                         *)
(* Two specifications share the variables:                                 *)
(*   Spec      the Framework's pub(crate) methods called in any order with *)
(*             any arguments (the orchestrator as a component);            *)
(*   LoopSpec  the closure main passes to event_loop.run, one action per   *)
(*             kind of event, each action the whole closure body.          *)
(* LoopLiveSpec is LoopSpec with requested redraws eventually delivered.   *)
(***************************************************************************)
EXTENDS Integers, Sequences, FiniteSets, TLC

(* ---------------------------- bounds ----------------------------------- *)
\* window dimensions range over 0..MaxDim (u32 in the source, never computed with)
MaxDim == 1
\* the Gui draws at most MaxWidgets widgets in one frame
MaxWidgets == 2
\* at most MaxBatch theme requests are issued between two prepares
MaxBatch == 2

(* ---------------------------- values ----------------------------------- *)
\* winit::window::Theme, and None of Option<Theme>
Themes == {"Dark", "Light"}
NoTheme == "None"

Dims == 0 .. MaxDim
Sizes == [width : Dims, height : Dims]

\* f64 scale factors in sixteenths: 1.0 (an f32 value too) and 1.375 (not one:
\* it rounds to 1.5)
ScaleFactors == {16, 22}

\* `x as f32`: round to nearest, ties to even, onto the coarser grid of the
\* narrower type. The model keeps 4 fractional bits for f64 and 2 for f32.
AsF32(x) ==
    LET q == x \div 4
        r == x % 4
    IN  IF r < 2 THEN 4 * q
        ELSE IF r > 2 THEN 4 * (q + 1)
        ELSE IF q % 2 = 0 THEN 4 * q ELSE 4 * (q + 1)

\* what Gui::ui can put on screen in one frame: a list of widgets, each
\* drawn once, in the order the Gui adds them
Widgets == {"label", "button"}
Contents ==
    {c \in UNION {[1 .. n -> Widgets] : n \in 0 .. MaxWidgets} :
        \A i, j \in 1 .. Len(c) : c[i] = c[j] => i = j}

\* egui::Visuals, reduced to the fields framework.rs reads or writes
\* egui::Visuals::dark(): the stock dark palette
VisualsDark ==
    [dark_mode |-> TRUE, noninteractive_fg |-> "GRAY_140", inactive_fg |-> "GRAY_180"]

\* egui::Visuals::light(): the stock light palette, with its grey foregrounds
VisualsLight ==
    [dark_mode |-> FALSE, noninteractive_fg |-> "GRAY_100", inactive_fg |-> "GRAY_80"]

\* the palettes Visuals::light() may return, whatever the egui release
Colors == {"BLACK", "GRAY_80", "GRAY_100"}
StockLightPalettes ==
    [dark_mode : {FALSE}, noninteractive_fg : Colors, inactive_fg : Colors]

\* egui::FontDefinitions::default(), reduced to names
DefaultFontDefinitions ==
    [ font_data |-> {"ProggyClean", "Ubuntu-Light", "NotoEmoji-Regular", "emoji-icon-font"},
      fonts_for_family |->
        [ Monospace |-> <<"ProggyClean", "Ubuntu-Light", "NotoEmoji-Regular", "emoji-icon-font">>,
          Proportional |-> <<"Ubuntu-Light", "NotoEmoji-Regular", "emoji-icon-font">> ],
      heading_size |-> 30 ]

\* other definitions FontDefinitions::default() may return: every name of a
\* list has its data, a list may be empty, the Proportional family may be
\* missing
StockFontLists == {<<>>, <<"Ubuntu-Light", "NotoEmoji-Regular">>}
StockFontDefinitions ==
    { [ font_data |-> {"Ubuntu-Light", "NotoEmoji-Regular"},
        fonts_for_family |-> [Monospace |-> mono, Proportional |-> prop],
        heading_size |-> 30 ] : mono \in StockFontLists, prop \in StockFontLists }
    \cup
    { [ font_data |-> {"Ubuntu-Light", "NotoEmoji-Regular"},
        fonts_for_family |-> [Monospace |-> mono],
        heading_size |-> 30 ] : mono \in StockFontLists }
    \cup {DefaultFontDefinitions}

(* ---------------------------- state ------------------------------------ *)
VARIABLES
    framework,        \* the Framework struct (with the egui context it owns)
    calls,            \* calls received by the collaborators during the last operation
    lastOp,           \* the last operation (Spec) or the last event handled (LoopSpec)
    requests,         \* theme requests since the last served one, each with how often it was applied
    requested,        \* the theme of the latest request
    served,           \* a prepare has run since the last theme request
    prevJobs,         \* paint_jobs before the last method call (recorded under Spec)
    control_flow,     \* *control_flow of the event loop closure
    redraw_requested, \* window.request_redraw() is pending
    exit_cause,       \* which statement set ControlFlow::Exit
    error_logged,     \* log::error! was called
    exit_status       \* the process's exit status: {} while it runs, {code} once the loop has ended

vars == <<framework, calls, lastOp, requests, requested, served, prevJobs,
          control_flow, redraw_requested, exit_cause, error_logged, exit_status>>

loopVars == <<control_flow, redraw_requested, exit_cause, error_logged, exit_status>>

(* ------------------- a method running: self plus the call log ---------- *)
\* m = [self |-> the Framework, calls |-> the collaborator calls made so far]
Run(self) == [self |-> self, calls |-> <<>>]

Call(m, c) == [m EXCEPT !.calls = Append(@, c)]

Last(s) == s[Len(s)]

CountOp(log, op) == Cardinality({i \in 1 .. Len(log) : log[i].op = op})

IndexOfOp(log, op) == CHOOSE i \in 1 .. Len(log) : log[i].op = op

Made(log, op) == CountOp(log, op) > 0

TheCall(log, op) == log[IndexOfOp(log, op)]

(* ---------------------------- framework.rs ----------------------------- *)
\* an install_fonts that names Ubuntu-Regular without embedding its data
install_fonts_no_data(fonts) ==
    LET withData ==
            [fonts EXCEPT !.font_data = @ \cup {"ProggyClean", "Ubuntu-Light"}]
        withMono ==
            IF "Monospace" \in DOMAIN withData.fonts_for_family
            THEN [withData EXCEPT !.fonts_for_family.Monospace =
                                      @ \o <<"ProggyClean", "Ubuntu-Light">>]
            ELSE withData
        withProp ==
            IF "Proportional" \in DOMAIN withMono.fonts_for_family
            THEN [withMono EXCEPT !.fonts_for_family.Proportional =
                                      Append(@, "Ubuntu-Regular")]
            ELSE withMono
    IN  [withProp EXCEPT !.heading_size = 16]

install_fonts(fonts) ==
    LET withData ==
            [fonts EXCEPT !.font_data = @ \cup {"ProggyClean", "Ubuntu-Regular", "Ubuntu-Light"}]
        withMono ==
            IF "Monospace" \in DOMAIN withData.fonts_for_family
            THEN [withData EXCEPT !.fonts_for_family.Monospace =
                                      @ \o <<"ProggyClean", "Ubuntu-Light">>]
            ELSE withData
        withProp ==
            IF "Proportional" \in DOMAIN withMono.fonts_for_family
            THEN [withMono EXCEPT !.fonts_for_family.Proportional =
                                      Append(@, "Ubuntu-Regular")]
            ELSE withMono
    IN  [withProp EXCEPT !.heading_size = 16]

\* Instant::elapsed(): the time from the instant `start` to the call
Elapsed(start) == [since |-> start]

\* a constructor that installs the theme's stock palette itself and leaves
\* nothing pending
new_eager(size, scale, theme) ==
    [ start_time |-> "Instant::now() in new",
      screen_descriptor |->
        [ physical_width |-> size.width,
          physical_height |-> size.height,
          scale_factor |-> AsF32(scale) ],
      paint_jobs |-> <<>>,
      theme |-> NoTheme,
      platform |->
        [ style |-> [visuals |-> IF theme = "Dark" THEN VisualsDark ELSE VisualsLight],
          fonts |-> install_fonts(DefaultFontDefinitions),
          pending_input |-> FALSE ] ]

new(size, scale, theme) ==
    [ start_time |-> "Instant::now() in new",
      screen_descriptor |->
        [ physical_width |-> size.width,
          physical_height |-> size.height,
          scale_factor |-> AsF32(scale) ],
      paint_jobs |-> <<>>,
      theme |-> theme,
      platform |->
        [ style |-> [visuals |-> VisualsDark],
          fonts |-> install_fonts(DefaultFontDefinitions),
          pending_input |-> FALSE ] ]

handle_event(m, event) ==
    LET m1 == Call(m, [op |-> "framework.handle_event", event |-> event])
    IN  Call([m1 EXCEPT !.self.platform.pending_input = TRUE],
             [op |-> "platform.handle_event", event |-> event])

\* a resize that validates its arguments and keeps the old size for a degenerate one
resize_validating(m, width, height) ==
    LET m1 == Call(m, [op |-> "framework.resize", width |-> width, height |-> height])
    IN  IF width > 0 /\ height > 0
        THEN [m1 EXCEPT !.self.screen_descriptor.physical_width = width,
                        !.self.screen_descriptor.physical_height = height]
        ELSE m1

resize(m, width, height) ==
    LET m1 == Call(m, [op |-> "framework.resize", width |-> width, height |-> height])
    IN  [m1 EXCEPT !.self.screen_descriptor.physical_width = width,
                   !.self.screen_descriptor.physical_height = height]

\* a scale_factor that throws away the jobs tessellated at the old scale
scale_factor_clearing(m, scale) ==
    LET m1 == Call(m, [op |-> "framework.scale_factor", scale_factor |-> scale])
    IN  [m1 EXCEPT !.self.screen_descriptor.scale_factor = AsF32(scale),
                   !.self.paint_jobs = <<>>]

scale_factor(m, scale) ==
    LET m1 == Call(m, [op |-> "framework.scale_factor", scale_factor |-> scale])
    IN  [m1 EXCEPT !.self.screen_descriptor.scale_factor = AsF32(scale)]

\* a change_theme that installs the theme's stock palette at once
change_theme_eager(m, theme) ==
    LET m1 == Call(m, [op |-> "framework.change_theme", theme |-> theme])
    IN  [m1 EXCEPT !.self.theme = theme,
                   !.self.platform.style =
                       [visuals |-> IF theme = "Dark" THEN VisualsDark ELSE VisualsLight]]

\* a change_theme that keeps a theme already pending: the first request wins
change_theme_first_wins(m, theme) ==
    LET m1 == Call(m, [op |-> "framework.change_theme", theme |-> theme])
    IN  IF m.self.theme = NoTheme THEN [m1 EXCEPT !.self.theme = theme] ELSE m1

change_theme(m, theme) ==
    LET m1 == Call(m, [op |-> "framework.change_theme", theme |-> theme])
    IN  [m1 EXCEPT !.self.theme = theme]

\* reading the option without taking it: the theme stays pending
taken_kept(theme) == theme

\* Option::take leaves None behind
taken(theme) == NoTheme

\* the stock light palette installed as it is
light_overrides_none(visuals) == visuals

\* framework.rs 136-143: the two foreground strokes of the light palette
\* are set to Color32::BLACK
light_overrides(visuals) ==
    [visuals EXCEPT !.noninteractive_fg = "BLACK", !.inactive_fg = "BLACK"]

\* the egui::Style update_theme builds for `theme`
theme_style(theme) ==
    [ visuals |->
        IF theme = "Dark" THEN VisualsDark ELSE light_overrides(VisualsLight) ]

\* a font swap that forgets the theme and reinstalls the definitions as they are
theme_fonts_unswapped(theme, fonts) == fonts

\* the weights the wrong way round
theme_fonts_inverted(theme, fonts) ==
    IF "Proportional" \in DOMAIN fonts.fonts_for_family
    THEN [fonts EXCEPT !.fonts_for_family.Proportional[1] =
                           IF theme = "Dark" THEN "Ubuntu-Regular" ELSE "Ubuntu-Light"]
    ELSE fonts

\* the font definitions update_theme installs for `theme`
theme_fonts(theme, fonts) ==
    IF "Proportional" \in DOMAIN fonts.fonts_for_family
    THEN [fonts EXCEPT !.fonts_for_family.Proportional[1] =
                           IF theme = "Dark" THEN "Ubuntu-Light" ELSE "Ubuntu-Regular"]
    ELSE fonts

\* the body of `if let Some(theme) = self.theme.take()`
apply_theme(m) ==
    LET theme == m.self.theme
        style == theme_style(theme)
        fonts == theme_fonts(theme, m.self.platform.fonts)
        m1 == [m EXCEPT !.self.theme = taken(theme)]
        m2 == Call([m1 EXCEPT !.self.platform.style = style],
                   [op |-> "ctx.set_style", style |-> style])
    IN  Call([m2 EXCEPT !.self.platform.fonts = fonts],
             [op |-> "ctx.set_fonts", fonts |-> fonts])

\* set_fonts moved out of the `if let`: the definitions are reinstalled every frame
update_theme_reinstalling(m) ==
    IF m.self.theme = NoTheme
    THEN Call(m, [op |-> "ctx.set_fonts", fonts |-> m.self.platform.fonts])
    ELSE apply_theme(m)

update_theme(m) ==
    IF m.self.theme = NoTheme THEN m ELSE apply_theme(m)

\* platform.end_frame(): one paint command per widget the Gui drew
PaintCommands(content) ==
    [i \in 1 .. Len(content) |-> [clip |-> "screen", shape |-> content[i]]]

\* ctx.tessellate(): one ClippedMesh per paint command, in order
Tessellate(commands) ==
    [i \in 1 .. Len(commands) |-> [clip |-> commands[i].clip, mesh |-> commands[i].shape]]

\* extending the buffer instead of assigning it
store_paint_jobs_extend(old, jobs) == old \o jobs

\* self.paint_jobs = ...
store_paint_jobs(old, jobs) == jobs

\* the theme reconciled after the Gui has built its widgets
prepare_theme_late(m, content) ==
    LET m0 == Call(m, [op |-> "framework.prepare"])
        m1 == Call(m0, [op |-> "platform.update_time",
                        elapsed |-> Elapsed(m0.self.start_time)])
        m2 == Call([m1 EXCEPT !.self.platform.pending_input = FALSE],
                   [op |-> "platform.begin_frame"])
        m3 == Call(m2, [op |-> "gui.ui", content |-> content])
        m4 == update_theme(m3)
        commands == PaintCommands(content)
        m5 == Call(m4, [op |-> "platform.end_frame", commands |-> commands])
        jobs == Tessellate(commands)
        m6 == Call(m5, [op |-> "ctx.tessellate", jobs |-> jobs])
    IN  [m6 EXCEPT !.self.paint_jobs = store_paint_jobs(@, jobs)]

prepare(m, content) ==
    LET m0 == Call(m, [op |-> "framework.prepare"])
        m1 == Call(m0, [op |-> "platform.update_time",
                        elapsed |-> Elapsed(m0.self.start_time)])
        m2 == Call([m1 EXCEPT !.self.platform.pending_input = FALSE],
                   [op |-> "platform.begin_frame"])
        m3 == update_theme(m2)
        m4 == Call(m3, [op |-> "gui.ui", content |-> content])
        commands == PaintCommands(content)
        m5 == Call(m4, [op |-> "platform.end_frame", commands |-> commands])
        jobs == Tessellate(commands)
        m6 == Call(m5, [op |-> "ctx.tessellate", jobs |-> jobs])
    IN  [m6 EXCEPT !.self.paint_jobs = store_paint_jobs(@, jobs)]

\* an rpass call, as its caller sees it: the outcome `failed` is dropped with
\* the statement's value, so render goes on to the next call
rpass_call(m, c) == Call(m, c)

\* the draw pass recorded before the buffers are uploaded
render_draw_first(m, failed) ==
    LET self == m.self
        m0 == Call(m, [op |-> "framework.render", self |-> self])
        m1 == rpass_call(m0, [op |-> "rpass.update_texture",
                             failed |-> "rpass.update_texture" \in failed])
        m2 == rpass_call(m1, [op |-> "rpass.update_user_textures",
                              failed |-> "rpass.update_user_textures" \in failed])
        m3 == rpass_call(m2, [op |-> "rpass.execute",
                              failed |-> "rpass.execute" \in failed,
                              paint_jobs |-> self.paint_jobs,
                              screen_descriptor |-> self.screen_descriptor,
                              clear_color |-> "BLACK"])
        m4 == rpass_call(m3, [op |-> "rpass.update_buffers",
                              failed |-> "rpass.update_buffers" \in failed,
                              paint_jobs |-> self.paint_jobs,
                              screen_descriptor |-> self.screen_descriptor])
    IN  Call(m4, [op |-> "render.return", value |-> "()"])

\* `failed`: the rpass calls that report a failure in this render
render(m, failed) ==
    LET self == m.self
        m0 == Call(m, [op |-> "framework.render", self |-> self])
        m1 == rpass_call(m0, [op |-> "rpass.update_texture",
                             failed |-> "rpass.update_texture" \in failed])
        m2 == rpass_call(m1, [op |-> "rpass.update_user_textures",
                              failed |-> "rpass.update_user_textures" \in failed])
        m3 == rpass_call(m2, [op |-> "rpass.update_buffers",
                              failed |-> "rpass.update_buffers" \in failed,
                              paint_jobs |-> self.paint_jobs,
                              screen_descriptor |-> self.screen_descriptor])
        m4 == rpass_call(m3, [op |-> "rpass.execute",
                              failed |-> "rpass.execute" \in failed,
                              paint_jobs |-> self.paint_jobs,
                              screen_descriptor |-> self.screen_descriptor,
                              clear_color |-> "BLACK"])
    IN  Call(m4, [op |-> "render.return", value |-> "()"])

RpassCalls ==
    {"rpass.update_texture", "rpass.update_user_textures", "rpass.update_buffers", "rpass.execute"}

\* at most one rpass call fails in a render
FailureSets == {{}} \cup {{c} : c \in RpassCalls}

(* ------------------- the record of theme requests ---------------------- *)
Request(by) == [by |-> by, applied |-> 0]

\* a new request joins the ones not yet served, or starts afresh
Requested(by) ==
    IF served THEN <<Request(by)>> ELSE Append(requests, Request(by))

\* the latest request is charged with every style application of `log`
Applied(log) ==
    LET n == CountOp(log, "ctx.set_style")
        k == Len(requests)
    IN  [requests EXCEPT ![k].applied = IF @ + n > 2 THEN 2 ELSE @ + n]

CanRequest == served \/ Len(requests) < MaxBatch

(* ---------------------------- Spec: the methods ------------------------ *)
InitCommon ==
    /\ calls = <<>>
    /\ lastOp = "new"
    /\ served = FALSE
    /\ prevJobs = <<>>
    /\ control_flow = "Poll"
    /\ redraw_requested = FALSE
    /\ exit_cause = "none"
    /\ error_logged = FALSE
    /\ exit_status = {}

Init ==
    /\ InitCommon
    /\ \E size \in Sizes, scale \in ScaleFactors, theme \in Themes :
          /\ framework = new(size, scale, theme)
          /\ requests = <<Request("new")>>
          /\ requested = theme

\* the bookkeeping every method call shares
Done(op, m) ==
    /\ framework' = m.self
    /\ calls' = m.calls
    /\ lastOp' = op
    /\ prevJobs' = framework.paint_jobs
    /\ UNCHANGED loopVars

CallHandleEvent ==
    /\ Done("handle_event", handle_event(Run(framework), "Other"))
    /\ UNCHANGED <<requests, requested, served>>

CallResize ==
    \E w \in Dims, h \in Dims :
        /\ Done("resize", resize(Run(framework), w, h))
        /\ UNCHANGED <<requests, requested, served>>

CallScaleFactor ==
    \E s \in ScaleFactors :
        /\ Done("scale_factor", scale_factor(Run(framework), s))
        /\ UNCHANGED <<requests, requested, served>>

CallChangeTheme ==
    \E theme \in Themes :
        /\ CanRequest
        /\ Done("change_theme", change_theme(Run(framework), theme))
        /\ requests' = Requested("change_theme")
        /\ requested' = theme
        /\ served' = FALSE

CallPrepare ==
    \E content \in Contents :
        LET m == prepare(Run(framework), content)
        IN  /\ Done("prepare", m)
            /\ requests' = Applied(m.calls)
            /\ UNCHANGED requested
            /\ served' = TRUE

CallRender ==
    \E failed \in FailureSets :
        /\ Done("render", render(Run(framework), failed))
        /\ UNCHANGED <<requests, requested, served>>

Next ==
    \/ CallHandleEvent
    \/ CallResize
    \/ CallScaleFactor
    \/ CallChangeTheme
    \/ CallPrepare
    \/ CallRender

Spec == Init /\ [][Next]_vars

(* ---------------------------- main.rs: the event loop ------------------ *)
\* Option<T> as a set with at most one element
Opt(S) == {{}} \cup {{x} : x \in S}

TheOne(o) == CHOOSE x \in o : TRUE

\* the events the closure is called with; each carries what the environment
\* decides while it is handled: the widgets the Gui draws, the outcome of
\* gpu.prepare() and of the rpass calls, and what the WinitInputHelper has
\* gathered (quit, scale_factor, window_resized) when its update returns true
ThemeChangedEvents == [kind : {"ThemeChanged"}, theme : Themes]
RedrawRequestedEvents ==
    [kind : {"RedrawRequested"}, content : Contents, gpu_prepare : {"Ok"}, failed : FailureSets]
    \cup [kind : {"RedrawRequested"}, content : Contents, gpu_prepare : {"Err"}, failed : {{}}]
MainEventsClearedEvents ==
    [kind : {"MainEventsCleared"}, quit : {FALSE}, scale_factor : Opt(ScaleFactors),
     window_resized : Opt(Sizes)]
    \cup [kind : {"MainEventsCleared"}, quit : {TRUE}, scale_factor : {{}}, window_resized : {{}}]
OtherEvents == [kind : {"Other"}]
LoopDestroyedEvents == [kind : {"LoopDestroyed"}]

\* input.update(&event): true once per batch of events, on MainEventsCleared
input_update(event) == event.kind = "MainEventsCleared"

\* the closure running: the method state plus the closure's own effects
Handling(self, event) ==
    [ self |-> self,
      calls |-> <<>>,
      control_flow |-> control_flow,
      redraw_requested |-> IF event.kind = "RedrawRequested" THEN FALSE ELSE redraw_requested,
      exit_cause |-> exit_cause,
      error_logged |-> error_logged,
      returned |-> FALSE ]

\* a request_redraw that is lost
request_redraw_dropped(h) == h

\* window.request_redraw()
request_redraw(h) == [h EXCEPT !.redraw_requested = TRUE]

\* main.rs 48-55
on_theme_changed(h, event) ==
    IF event.kind = "ThemeChanged"
    THEN request_redraw(change_theme(h, event.theme))
    ELSE h

\* the error branch without its return
on_gpu_error_no_return(h) ==
    [h EXCEPT !.error_logged = TRUE,
              !.control_flow = "Exit",
              !.exit_cause = "gpu_error"]

\* main.rs 62-70: gpu.prepare() returned Err
on_gpu_error(h) ==
    [h EXCEPT !.error_logged = TRUE,
              !.control_flow = "Exit",
              !.exit_cause = "gpu_error",
              !.returned = TRUE]

\* the prepared frame rendered twice
render_and_submit_twice(h, event) ==
    Call(render(render(h, event.failed), event.failed), [op |-> "gpu.queue.submit"])

\* main.rs 72-78
render_and_submit(h, event) ==
    Call(render(h, event.failed), [op |-> "gpu.queue.submit"])

\* main.rs 58-79
on_redraw_requested(h, event) ==
    IF event.kind = "RedrawRequested"
    THEN LET h1 == prepare(h, event.content)
             h2 == Call(h1, [op |-> "gpu.prepare", result |-> event.gpu_prepare])
             h3 == IF event.gpu_prepare = "Err" THEN on_gpu_error(h2) ELSE h2
         IN  IF h3.returned THEN h3 ELSE render_and_submit(h3, event)
    ELSE h

\* no filter on the resized window's size
size_accepted_any(size) == TRUE

\* main.rs 96: if size.width > 0 && size.height > 0
size_accepted(size) == size.width > 0 /\ size.height > 0

\* main.rs 82-104
on_input(h, event) ==
    IF input_update(event)
    THEN IF event.quit
         THEN [h EXCEPT !.control_flow = "Exit", !.exit_cause = "quit", !.returned = TRUE]
         ELSE LET h1 == IF event.scale_factor # {}
                        THEN scale_factor(h, TheOne(event.scale_factor))
                        ELSE h
                  h2 == IF event.window_resized # {}
                        THEN LET size == TheOne(event.window_resized)
                                 h1a == Call(h1, [op |-> "input.window_resized", size |-> size])
                             IN  IF size_accepted(size)
                                 THEN resize(Call(h1a, [op |-> "gpu.resize", size |-> size]),
                                             size.width, size.height)
                                 ELSE h1a
                        ELSE h1
              IN  request_redraw(h2)
    ELSE h

\* main.rs 44-105: the closure, called once per event
event_handler(self, event) ==
    LET h1 == handle_event(Handling(self, event), event.kind)
        h2 == on_theme_changed(h1, event)
        h3 == on_redraw_requested(h2, event)
    IN  IF h3.returned THEN h3 ELSE on_input(h3, event)

\* event_loop.run never returns: once *control_flow is Exit the loop ends the
\* process itself, with a status that depends on the ControlFlow value alone
ExitStatus(cf) == CASE cf = "Exit" -> 0

LoopInit ==
    /\ InitCommon
    /\ \E size \in Sizes, scale \in ScaleFactors, theme \in Themes :
          /\ size.width > 0 /\ size.height > 0
          /\ framework = new(size, scale, theme)
          /\ requests = <<Request("new")>>
          /\ requested = theme

Running == control_flow = "Poll" /\ exit_status = {}

\* the bookkeeping every event shares
Handled(event, h) ==
    /\ framework' = h.self
    /\ calls' = h.calls
    /\ lastOp' = event.kind
    /\ UNCHANGED prevJobs
    /\ control_flow' = h.control_flow
    /\ redraw_requested' = h.redraw_requested
    /\ exit_cause' = h.exit_cause
    /\ error_logged' = h.error_logged

OnThemeChanged ==
    \E event \in ThemeChangedEvents :
        /\ Running
        /\ CanRequest
        /\ Handled(event, event_handler(framework, event))
        /\ requests' = Requested("change_theme")
        /\ requested' = event.theme
        /\ served' = FALSE
        /\ UNCHANGED exit_status

OnRedrawRequested ==
    \E event \in RedrawRequestedEvents :
        LET h == event_handler(framework, event)
        IN  /\ Running
            /\ Handled(event, h)
            /\ requests' = Applied(h.calls)
            /\ served' = TRUE
            /\ UNCHANGED <<requested, exit_status>>

OnMainEventsCleared ==
    \E event \in MainEventsClearedEvents :
        /\ Running
        /\ Handled(event, event_handler(framework, event))
        /\ UNCHANGED <<requests, requested, served, exit_status>>

OnOtherEvent ==
    \E event \in OtherEvents :
        /\ Running
        /\ Handled(event, event_handler(framework, event))
        /\ UNCHANGED <<requests, requested, served, exit_status>>

\* after ControlFlow::Exit the closure sees LoopDestroyed and the process ends
OnLoopDestroyed ==
    \E event \in LoopDestroyedEvents :
        /\ control_flow = "Exit"
        /\ exit_status = {}
        /\ Handled(event, event_handler(framework, event))
        /\ exit_status' = {ExitStatus(control_flow)}
        /\ UNCHANGED <<requests, requested, served>>

LoopNext ==
    \/ OnThemeChanged
    \/ OnRedrawRequested
    \/ OnMainEventsCleared
    \/ OnOtherEvent
    \/ OnLoopDestroyed

LoopSpec == LoopInit /\ [][LoopNext]_vars

\* a requested redraw is delivered: the steps of OnRedrawRequested (no other
\* action sets lastOp so) that start with a redraw requested and in which
\* gpu.prepare() succeeds, so that the handling ends with ControlFlow::Poll and
\* the request consumed; it is enabled exactly when the loop runs with a
\* redraw requested
RedrawDelivered ==
    /\ Running
    /\ redraw_requested
    /\ lastOp' = "RedrawRequested"
    /\ control_flow' = "Poll"
    /\ redraw_requested' = FALSE

\* the event loop with winit honouring request_redraw() and a working GPU
LoopLiveSpec ==
    LoopInit /\ [][LoopNext]_vars /\ WF_<<lastOp, redraw_requested>>(RedrawDelivered)

(* ============================ properties =============================== *)
\* the theme the installed style belongs to
StyleTheme(style) == IF style.visuals.dark_mode THEN "Dark" ELSE "Light"

\* the theme the first Proportional font belongs to
FontTheme(fonts) ==
    CASE fonts.fonts_for_family.Proportional[1] = "Ubuntu-Light" -> "Dark"
      [] fonts.fonts_for_family.Proportional[1] = "Ubuntu-Regular" -> "Light"
      [] OTHER -> "neither"

SetStyleCalls == {i \in 1 .. Len(calls) : calls[i].op = "ctx.set_style"}

\* C1: a prepare that follows one or more theme requests applies exactly one
\* style, the one of the last requested theme, which is then the style in
\* force, and leaves no theme pending.
C1_LastRequestedThemeApplied ==
    [][ (lastOp' = "prepare" /\ ~served) =>
            /\ CountOp(calls', "ctx.set_style") = 1
            /\ StyleTheme(TheCall(calls', "ctx.set_style").style) = requested
            /\ StyleTheme(framework'.platform.style) = requested
            /\ framework'.theme = NoTheme ]_vars

\* C1 witness: two requests were pending (the constructor's Dark one
\* overwritten by a change_theme to Light) and the prepare applied Light.
C1_Witness ==
    /\ lastOp = "prepare"
    /\ Len(requests) = 2
    /\ requests[2].by = "change_theme"
    /\ requested = "Light"
    /\ SetStyleCalls # {}
    /\ StyleTheme(framework.platform.style) = "Light"
    /\ framework.theme = NoTheme

\* C2: a prepare with no theme request since the previous prepare calls
\* neither set_style nor set_fonts and leaves the style, the font definitions
\* and the (empty) pending theme as they were.
C2_PrepareIdempotentOnTheme ==
    [][ (lastOp' = "prepare" /\ served) =>
            /\ ~Made(calls', "ctx.set_style")
            /\ ~Made(calls', "ctx.set_fonts")
            /\ framework'.platform.style = framework.platform.style
            /\ framework'.platform.fonts = framework.platform.fonts
            /\ framework.theme = NoTheme
            /\ framework'.theme = NoTheme ]_vars

\* C2 witness: a prepare that applied nothing, after the latest request had
\* been applied by an earlier prepare.
C2_Witness ==
    /\ lastOp = "prepare"
    /\ served
    /\ Last(requests).applied = 1
    /\ Last(requests).by = "change_theme"
    /\ ~Made(calls, "ctx.set_style")
    /\ ~Made(calls, "ctx.set_fonts")

\* C3: in the event loop, every render sees no pending theme, and a style and
\* a first Proportional font that both belong to the most recently requested
\* theme.
C3_RenderSeesRequestedTheme ==
    \A i \in 1 .. Len(calls) :
        calls[i].op = "framework.render" =>
            /\ calls[i].self.theme = NoTheme
            /\ StyleTheme(calls[i].self.platform.style) = requested
            /\ FontTheme(calls[i].self.platform.fonts) = requested

\* C3 witness: a render after a ThemeChanged event asked for Light.
C3_Witness ==
    /\ lastOp = "RedrawRequested"
    /\ Made(calls, "framework.render")
    /\ Made(calls, "ctx.set_style")
    /\ Last(requests).by = "change_theme"
    /\ requested = "Light"

\* C4 as stated: once a prepare has run, every change_theme call has had its
\* rewrite applied exactly once.
C4_EveryRequestAppliedOnce ==
    served => \A i \in 1 .. Len(requests) :
                  requests[i].by = "change_theme" => requests[i].applied = 1

\* C4 amended: a request is applied exactly once if it is the latest one when
\* a prepare runs, and never if a later request replaced it before a prepare
\* ran; no request is applied before a prepare or more than once.
C4_LatestRequestAppliedOnce ==
    \A i \in 1 .. Len(requests) :
        requests[i].applied = IF served /\ i = Len(requests) THEN 1 ELSE 0

\* C4 witness: two change_theme calls, then a prepare: the first was never
\* applied, the second once.
C4_Witness ==
    /\ served
    /\ Len(requests) = 2
    /\ requests[1].by = "change_theme" /\ requests[1].applied = 0
    /\ requests[2].by = "change_theme" /\ requests[2].applied = 1

\* C5: after a prepare the buffer holds the meshes of the widgets drawn in
\* that frame, one per widget and in order, and nothing else.
C5_PaintJobsReplaced ==
    lastOp = "prepare" =>
        LET content == TheCall(calls, "gui.ui").content
        IN  /\ Len(framework.paint_jobs) = Len(content)
            /\ \A i \in 1 .. Len(content) : framework.paint_jobs[i].mesh = content[i]

\* C5 witness: a prepare over a non-empty buffer that drew other widgets: no
\* mesh of the earlier frame is in the buffer.
C5_Witness ==
    /\ lastOp = "prepare"
    /\ prevJobs # <<>>
    /\ framework.paint_jobs # <<>>
    /\ \A i \in 1 .. Len(framework.paint_jobs) : \A j \in 1 .. Len(prevJobs) :
           framework.paint_jobs[i] # prevJobs[j]

\* C6: after resize(w, h) the descriptor's width and height are w and h,
\* whatever they are, (0, 0) included.
C6_ResizeOverwrites ==
    lastOp = "resize" =>
        /\ framework.screen_descriptor.physical_width = calls[1].width
        /\ framework.screen_descriptor.physical_height = calls[1].height

\* C6 witness: resize(0, 0) was called and stored.
C6_Witness ==
    /\ lastOp = "resize"
    /\ calls[1].width = 0 /\ calls[1].height = 0
    /\ framework.screen_descriptor.physical_width = 0
    /\ framework.screen_descriptor.physical_height = 0

PositiveSize(sd) == sd.physical_width > 0 /\ sd.physical_height > 0

At(op) == {i \in 1 .. Len(calls) : calls[i].op = op}

\* C8: a redraw calls gpu.prepare() once; if it fails the handler sets Exit
\* and neither renders nor submits; if it succeeds the handler renders and
\* submits, in that order, and does not set Exit.
C8_RedrawCompletesOrExits ==
    lastOp = "RedrawRequested" =>
        /\ Cardinality(At("framework.prepare")) = 1
        /\ Cardinality(At("gpu.prepare")) = 1
        /\ TheCall(calls, "gpu.prepare").result = "Err" =>
               /\ control_flow = "Exit"
               /\ At("framework.render") = {}
               /\ At("gpu.queue.submit") = {}
        /\ TheCall(calls, "gpu.prepare").result = "Ok" =>
               /\ control_flow = "Poll"
               /\ Cardinality(At("framework.render")) = 1
               /\ Cardinality(At("gpu.queue.submit")) = 1
               /\ \A i \in At("framework.prepare"), j \in At("gpu.prepare"),
                     k \in At("framework.render"), l \in At("gpu.queue.submit") :
                      i < j /\ j < k /\ k < l

\* C8 witness: gpu.prepare() failed during a redraw.
C8_Witness ==
    /\ lastOp = "RedrawRequested"
    /\ Made(calls, "gpu.prepare")
    /\ TheCall(calls, "gpu.prepare").result = "Err"
    /\ control_flow = "Exit"

\* C9 as stated: when an rpass call of a render fails, render returns an error
\* to its caller, which then does not submit the frame.
C9_RenderFailurePropagated ==
    \A i \in 1 .. Len(calls) :
        (calls[i].op \in RpassCalls /\ calls[i].failed) =>
            /\ \E j \in 1 .. Len(calls) :
                   calls[j].op = "render.return" /\ calls[j].value = "Err"
            /\ ~Made(calls, "gpu.queue.submit")

\* C10 as stated: the process ends with status 0 after a quit and with a
\* non-zero status, the error logged, after a gpu.prepare() failure.
C10_ExitStatusTellsCause ==
    exit_status # {} =>
        /\ exit_cause = "quit" => exit_status = {0}
        /\ exit_cause = "gpu_error" => (0 \notin exit_status /\ error_logged)

\* a frame was prepared and rendered with the theme last requested and the
\* descriptor as it stands
Rendered ==
    /\ lastOp = "RedrawRequested"
    /\ Made(calls, "framework.prepare")
    /\ Made(calls, "framework.render")
    /\ Made(calls, "gpu.queue.submit")
    /\ StyleTheme(TheCall(calls, "framework.render").self.platform.style) = requested
    /\ TheCall(calls, "rpass.execute").screen_descriptor = framework.screen_descriptor

\* C11: a handling that calls change_theme or finds the window resized ends
\* with a redraw requested, and, redraws being delivered and gpu.prepare() succeeding,
\* a requested redraw leads to a prepared and rendered frame with the theme
\* and size of the moment, unless the loop exits first.
C11_RedrawFollowsChange ==
    /\ []((Made(calls, "framework.change_theme") \/ Made(calls, "input.window_resized"))
            => redraw_requested)
    /\ (redraw_requested /\ control_flow = "Poll") ~> (Rendered \/ control_flow = "Exit")

\* C11 witness: a resize was handled and a redraw is pending.
C11_Witness ==
    /\ lastOp = "MainEventsCleared"
    /\ Made(calls, "framework.resize")
    /\ redraw_requested
    /\ control_flow = "Poll"

\* C12: every style update_theme installs for Light has both foreground
\* strokes black, whatever stock light palette the overrides start from, and
\* is otherwise the stock light palette; every style it installs for Dark is
\* the stock dark palette, unmodified.
C12_LightStrokesBlack ==
    /\ \A stock \in StockLightPalettes :
          /\ light_overrides(stock).noninteractive_fg = "BLACK"
          /\ light_overrides(stock).inactive_fg = "BLACK"
          /\ light_overrides(stock).dark_mode = stock.dark_mode
    /\ \A i \in SetStyleCalls :
          LET visuals == calls[i].style.visuals
          IN  /\ calls[i].style = framework.platform.style
              /\ IF requested = "Light"
                 THEN /\ visuals.noninteractive_fg = "BLACK"
                      /\ visuals.inactive_fg = "BLACK"
                      /\ visuals.dark_mode = VisualsLight.dark_mode
                 ELSE visuals = VisualsDark

\* C12 witness: a prepare has just applied Light over an installed Dark style
\* (Light requested by change_theme after Dark was served).
C12_Witness ==
    /\ lastOp = "prepare"
    /\ SetStyleCalls # {}
    /\ requested = "Light"
    /\ requests[1].by = "change_theme"
    /\ framework.platform.style.visuals.inactive_fg = "BLACK"

\* C13: once a prepare has applied the theme last requested, the first entry
\* of the Proportional list is "Ubuntu-Light" for Dark and "Ubuntu-Regular"
\* for Light, in the definitions handed to set_fonts and in the ones in force,
\* however many requests and prepares came before.
C13_ProportionalFirstFont ==
    served =>
        LET weight == IF requested = "Dark" THEN "Ubuntu-Light" ELSE "Ubuntu-Regular"
        IN  /\ framework.platform.fonts.fonts_for_family.Proportional[1] = weight
            /\ \A i \in 1 .. Len(calls) :
                  calls[i].op = "ctx.set_fonts" =>
                      calls[i].fonts.fonts_for_family.Proportional[1] = weight

\* C13 witness: a prepare has just installed the fonts for a Light theme that
\* change_theme requested.
C13_Witness ==
    /\ lastOp = "prepare"
    /\ Made(calls, "ctx.set_fonts")
    /\ requests[1].by = "change_theme"
    /\ requested = "Light"
    /\ framework.platform.fonts.fonts_for_family.Proportional[1] = "Ubuntu-Regular"

\* the operations of a call log, in order
Ops(log) == [i \in 1 .. Len(log) |-> log[i].op]

\* the calls of one prepare, in order, with or without a theme to reconcile
PrepareSteps(pending) ==
    <<"framework.prepare", "platform.update_time", "platform.begin_frame">>
    \o (IF pending THEN <<"ctx.set_style", "ctx.set_fonts">> ELSE <<>>)
    \o <<"gui.ui", "platform.end_frame", "ctx.tessellate">>

\* C14: a prepare makes exactly these calls, each once and in this order:
\* update_time with the time elapsed since start_time (the instant of
\* construction, never reset), begin_frame, the style and fonts of a pending
\* theme if there is one, gui.ui, end_frame, tessellate of the commands
\* end_frame returned, whose result becomes paint_jobs.
C14_PrepareStepOrder ==
    [][ lastOp' = "prepare" =>
            /\ Ops(calls') = PrepareSteps(framework.theme # NoTheme)
            /\ TheCall(calls', "platform.update_time").elapsed = Elapsed(framework.start_time)
            /\ framework'.start_time = framework.start_time
            /\ TheCall(calls', "ctx.tessellate").jobs
                    = Tessellate(TheCall(calls', "platform.end_frame").commands)
            /\ framework'.paint_jobs = TheCall(calls', "ctx.tessellate").jobs ]_vars

\* C14 witness: a prepare with a theme to reconcile and a widget to draw has
\* made its eight calls.
C14_Witness ==
    /\ lastOp = "prepare"
    /\ Ops(calls) = PrepareSteps(TRUE)
    /\ framework.paint_jobs # <<>>

\* the Framework methods that change what a frame is built from
FrameInputs ==
    {"framework.handle_event", "framework.resize", "framework.scale_factor",
     "framework.change_theme"}

\* C15: in every handling of the event loop, a call of render comes after a
\* call of prepare of the same handling, the only prepare and the only render
\* of that handling, with no handle_event, resize, scale_factor or
\* change_theme call of the Framework between the two; so render never runs
\* twice for one prepare, nor before the first prepare.
C15_RenderFollowsItsPrepare ==
    /\ CountOp(calls, "framework.render") <= 1
    /\ \A j \in 1 .. Len(calls) :
          calls[j].op = "framework.render" =>
              /\ lastOp = "RedrawRequested"
              /\ CountOp(calls, "framework.prepare") = 1
              /\ IndexOfOp(calls, "framework.prepare") < j
              /\ \A k \in IndexOfOp(calls, "framework.prepare") + 1 .. j - 1 :
                    calls[k].op \notin FrameInputs

\* C15 witness: a redraw handling forwarded its event, prepared with a theme
\* to reconcile, rendered and submitted.
C15_Witness ==
    /\ lastOp = "RedrawRequested"
    /\ Made(calls, "framework.handle_event")
    /\ Made(calls, "ctx.set_style")
    /\ Made(calls, "framework.render")
    /\ IndexOfOp(calls, "framework.handle_event") < IndexOfOp(calls, "framework.prepare")
    /\ IndexOfOp(calls, "framework.render") < IndexOfOp(calls, "gpu.queue.submit")

\* C16: a change_theme call writes the theme field and nothing else: the
\* style and the font definitions in force and paint_jobs stay as they were
\* and the egui context receives no call; the style and the fonts in force
\* change only in a prepare.
C16_ChangeThemeLazy ==
    [][ /\ lastOp' = "change_theme" =>
              /\ framework' = [framework EXCEPT !.theme = requested']
              /\ Ops(calls') = <<"framework.change_theme">>
        /\ ( \/ framework'.platform.style # framework.platform.style
             \/ framework'.platform.fonts # framework.platform.fonts )
              => lastOp' = "prepare" ]_vars

\* C16 witness: Light was requested after Dark had been applied and frames
\* prepared; the Dark style and font are still in force, the jobs still there.
C16_Witness ==
    /\ lastOp = "change_theme"
    /\ framework.theme = "Light"
    /\ framework.platform.style.visuals = VisualsDark
    /\ framework.platform.fonts.fonts_for_family.Proportional[1] = "Ubuntu-Light"
    /\ framework.paint_jobs # <<>>

\* C17: handle_event leaves screen_descriptor, theme and paint_jobs as they
\* were (it hands the event to the platform); resize writes physical_width
\* and physical_height and nothing else; scale_factor writes
\* screen_descriptor.scale_factor (its argument as f32) and nothing else.
C17_OwnFieldOnly ==
    [][ /\ lastOp' = "handle_event" =>
              /\ framework'.screen_descriptor = framework.screen_descriptor
              /\ framework'.theme = framework.theme
              /\ framework'.paint_jobs = framework.paint_jobs
              /\ framework' = [framework EXCEPT !.platform.pending_input = TRUE]
        /\ lastOp' = "resize" =>
              LET c == TheCall(calls', "framework.resize")
              IN  framework' = [framework EXCEPT
                                   !.screen_descriptor.physical_width = c.width,
                                   !.screen_descriptor.physical_height = c.height]
        /\ lastOp' = "scale_factor" =>
              LET c == TheCall(calls', "framework.scale_factor")
              IN  framework' = [framework EXCEPT
                                   !.screen_descriptor.scale_factor = AsF32(c.scale_factor)]
      ]_vars

\* C17 witness: scale_factor(1.375) was called with a theme pending and jobs
\* in the buffer; the descriptor holds 1.5 and the window's full size.
C17_Witness ==
    /\ lastOp = "scale_factor"
    /\ TheCall(calls, "framework.scale_factor").scale_factor = 22
    /\ framework.screen_descriptor.scale_factor = 24
    /\ framework.screen_descriptor.physical_width = MaxDim
    /\ framework.theme # NoTheme
    /\ framework.paint_jobs # <<>>

\* the calls of one render, in order
RenderSteps ==
    <<"framework.render", "rpass.update_texture", "rpass.update_user_textures",
      "rpass.update_buffers", "rpass.execute", "render.return">>

\* C18: a render uploads the font texture, then the user textures, then the
\* buffers, and then records the draw pass; update_buffers and execute both
\* receive paint_jobs, whole and in the order tessellation left it, and the
\* screen_descriptor of the Framework; the Framework is the same after the
\* render as before it (paint_jobs, screen_descriptor and theme included).
C18_RenderReadsInOrder ==
    [][ lastOp' = "render" =>
            /\ Ops(calls') = RenderSteps
            /\ \A op \in {"rpass.update_buffers", "rpass.execute"} :
                  /\ TheCall(calls', op).paint_jobs = framework.paint_jobs
                  /\ TheCall(calls', op).screen_descriptor = framework.screen_descriptor
            /\ framework' = framework ]_vars

\* C18 witness: a render of a prepared frame of two jobs, with a theme pending
\* and a scale the descriptor rounded, has handed its jobs to execute.
C18_Witness ==
    /\ lastOp = "render"
    /\ Len(framework.paint_jobs) > 1
    /\ framework.theme # NoTheme
    /\ TheCall(calls, "rpass.execute").paint_jobs = framework.paint_jobs
    /\ TheCall(calls, "rpass.execute").screen_descriptor.scale_factor = 24

\* C19: right after construction the theme field holds the constructor's
\* theme, paint_jobs is empty and the egui context has the default style and
\* the installed fonts, no set_style made; the constructor's request is
\* applied once, by the first prepare, when no change_theme came before that
\* prepare, and never when one did.
C19_InitialThemePending ==
    /\ lastOp = "new" =>
          /\ framework.theme = requested
          /\ framework.theme \in Themes
          /\ framework.paint_jobs = <<>>
          /\ framework.platform.style = [visuals |-> VisualsDark]
          /\ framework.platform.fonts = install_fonts(DefaultFontDefinitions)
          /\ calls = <<>>
    /\ \A i \in 1 .. Len(requests) :
          requests[i].by = "new" =>
              /\ i = 1
              /\ requests[i].applied = IF served /\ Len(requests) = 1 THEN 1 ELSE 0
              /\ (served /\ Len(requests) = 1) =>
                     StyleTheme(framework.platform.style) = requested

\* C19 witness: a change_theme came before the first prepare, which applied
\* it and not the constructor's theme.
C19_Witness ==
    /\ lastOp = "prepare"
    /\ served
    /\ Len(requests) = 2
    /\ requests[1].by = "new"
    /\ requests[1].applied = 0
    /\ requests[2].by = "change_theme"
    /\ requests[2].applied = 1

\* font definitions update_theme can index and egui can load
WellFormed(fonts) ==
    /\ "Proportional" \in DOMAIN fonts.fonts_for_family
            => Len(fonts.fonts_for_family.Proportional) > 0
    /\ \A family \in DOMAIN fonts.fonts_for_family :
          \A i \in 1 .. Len(fonts.fonts_for_family[family]) :
              fonts.fonts_for_family[family][i] \in fonts.font_data

\* `after` is `before` but for the first entry of its Proportional list
SwappedFirst(before, after) ==
    \/ after = before
    \/ /\ "Proportional" \in DOMAIN before.fonts_for_family
       /\ \E name \in {"Ubuntu-Light", "Ubuntu-Regular"} :
              after = [before EXCEPT !.fonts_for_family.Proportional[1] = name]

\* C20: the font definitions in force are well-formed at all times (a
\* Proportional list is never empty, so its first entry can be written, and
\* every name of a list has its font data), and so are those install_fonts
\* and two theme swaps make of any stock definitions; a step changes the
\* definitions in force at most in the first entry of the Proportional list.
C20_FontsWellFormed ==
    /\ [](WellFormed(framework.platform.fonts))
    /\ [](\A stock \in StockFontDefinitions, first \in Themes, second \in Themes :
            LET installed == install_fonts(stock)
                once == theme_fonts(first, installed)
                twice == theme_fonts(second, once)
            IN  /\ WellFormed(installed) /\ WellFormed(once) /\ WellFormed(twice)
                /\ SwappedFirst(installed, once) /\ SwappedFirst(once, twice))
    /\ [][SwappedFirst(framework.platform.fonts, framework'.platform.fonts)]_vars

\* C20 witness: Light has been applied: the Proportional list starts with
\* Ubuntu-Regular, keeps its length and its other entries, the one
\* install_fonts pushed included, and the Monospace list is as installed.
C20_Witness ==
    /\ lastOp = "prepare"
    /\ Made(calls, "ctx.set_fonts")
    /\ framework.platform.fonts.fonts_for_family.Proportional
          = <<"Ubuntu-Regular", "NotoEmoji-Regular", "emoji-icon-font", "Ubuntu-Regular">>
    /\ framework.platform.fonts.fonts_for_family.Monospace
          = install_fonts(DefaultFontDefinitions).fonts_for_family.Monospace

====
